---- MODULE Spec2Model ----
(***************************************************************************)
(* Model of tools/build_weights.py: the batch job that reads the sheet     *)
(* "Canam Deck Catalog" of Deck Weights.xlsx, builds the DECK_LBS_PER_SQ   *)
(* mapping and writes weights.js.                                          *)
(*                                                                         *)
(* Texts are TLA+ strings; a character is a string of length 1.  A row is  *)
(* a sequence of cells [ref, val] in the insertion order of the Python     *)
(* dict that read_sheet_rows builds (distinct refs).  A dict of the result *)
(* is a sequence of [key, finishes] items in insertion order.              *)
(***************************************************************************)
EXTENDS Integers, Sequences, FiniteSets, TLC

(***************************************************************************)
(* Python str primitives                                                   *)
(***************************************************************************)

\* s[i], 1-based
Ch(s, i) == SubSeq(s, i, i)

\* the characters str.strip() removes (ASCII whitespace)
IsSpace(c) == c \in {" ", "\t", "\n", "\r"}

RECURSIVE LStrip(_)
LStrip(s) ==
  IF Len(s) > 0 /\ IsSpace(Ch(s, 1)) THEN LStrip(SubSeq(s, 2, Len(s))) ELSE s

RECURSIVE RStrip(_)
RStrip(s) ==
  IF Len(s) > 0 /\ IsSpace(Ch(s, Len(s))) THEN RStrip(SubSeq(s, 1, Len(s) - 1)) ELSE s

\* str.strip()
Strip(s) == RStrip(LStrip(s))

\* str.replace(c, "") for a one-character c
RECURSIVE RemoveChar(_, _)
RemoveChar(s, c) ==
  IF Len(s) = 0 THEN ""
  ELSE (IF Ch(s, 1) = c THEN "" ELSE Ch(s, 1)) \o RemoveChar(SubSeq(s, 2, Len(s)), c)

\* str.endswith(suf)
EndsWith(s, suf) ==
  Len(s) >= Len(suf) /\ SubSeq(s, Len(s) - Len(suf) + 1, Len(s)) = suf

LowerLetters == <<"a","b","c","d","e","f","g","h","i","j","k","l","m",
                  "n","o","p","q","r","s","t","u","v","w","x","y","z">>
UpperLetters == <<"A","B","C","D","E","F","G","H","I","J","K","L","M",
                  "N","O","P","Q","R","S","T","U","V","W","X","Y","Z">>

LowerSet == {LowerLetters[k] : k \in 1..26}
UpperSet == {UpperLetters[k] : k \in 1..26}
Digits == <<"0","1","2","3","4","5","6","7","8","9">>
DigitSet == {Digits[k] : k \in 1..10}

IsLower(c) == c \in LowerSet
IsUpper(c) == c \in UpperSet
IsDigit(c) == c \in DigitSet
\* str.isalpha() of one character
IsAlpha(c) == IsLower(c) \/ IsUpper(c)

UpperTable == [c \in LowerSet |-> UpperLetters[CHOOSE k \in 1..26 : LowerLetters[k] = c]]
LowerTable == [c \in UpperSet |-> LowerLetters[CHOOSE k \in 1..26 : UpperLetters[k] = c]]
DigitTable == [c \in DigitSet |-> (CHOOSE k \in 1..10 : Digits[k] = c) - 1]

UpperChar(c) == IF IsLower(c) THEN UpperTable[c] ELSE c
DigitVal(c) == DigitTable[c]

\* str.upper()
RECURSIVE Upper(_)
Upper(s) ==
  IF Len(s) = 0 THEN "" ELSE UpperChar(Ch(s, 1)) \o Upper(SubSeq(s, 2, Len(s)))

\* ord(c), for the characters cell texts of the model are made of
OrdTable ==
  [c \in LowerSet \cup UpperSet \cup DigitSet \cup {"\t", "\n", "\r", " ", "+", ",", "-", ".", "_"} |->
     CASE c = "\t" -> 9
       [] c = "\n" -> 10
       [] c = "\r" -> 13
       [] c = " " -> 32
       [] c = "+" -> 43
       [] c = "," -> 44
       [] c = "-" -> 45
       [] c = "." -> 46
       [] c = "_" -> 95
       [] IsDigit(c) -> 48 + DigitTable[c]
       [] IsUpper(c) -> 64 + (CHOOSE k \in 1..26 : UpperLetters[k] = c)
       [] IsLower(c) -> 96 + (CHOOSE k \in 1..26 : LowerLetters[k] = c)]

Ord(c) == OrdTable[c]

\* a < b for Python str (code-point lexicographic order)
RECURSIVE StrLess(_, _)
StrLess(a, b) ==
  IF Len(b) = 0 THEN FALSE
  ELSE IF Len(a) = 0 THEN TRUE
  ELSE IF Ch(a, 1) = Ch(b, 1) THEN StrLess(SubSeq(a, 2, Len(a)), SubSeq(b, 2, Len(b)))
  ELSE Ord(Ch(a, 1)) < Ord(Ch(b, 1))

(***************************************************************************)
(* col_to_index                                                            *)
(***************************************************************************)

RECURSIVE ColAcc(_, _)
ColAcc(ref, total) ==
  IF Len(ref) = 0 THEN total
  ELSE ColAcc(SubSeq(ref, 2, Len(ref)),
              IF IsAlpha(Ch(ref, 1))
              THEN total * 26 + (Ord(UpperChar(Ch(ref, 1))) - 64)
              ELSE total)

col_to_index(cell_ref) == ColAcc(cell_ref, 0)

(***************************************************************************)
(* normalize_number and the rounding build_mapping applies                 *)
(***************************************************************************)

None == [kind |-> "None"]

RECURSIVE DigitsValue(_, _)
DigitsValue(s, acc) ==
  IF Len(s) = 0 THEN acc
  ELSE DigitsValue(SubSeq(s, 2, Len(s)), acc * 10 + DigitVal(Ch(s, 1)))

RECURSIVE Pow10(_)
Pow10(k) == IF k = 0 THEN 1 ELSE 10 * Pow10(k - 1)

RECURSIVE CountChar(_, _)
CountChar(s, c) ==
  IF Len(s) = 0 THEN 0
  ELSE (IF Ch(s, 1) = c THEN 1 ELSE 0) + CountChar(SubSeq(s, 2, Len(s)), c)

\* position of the first c in s, Len(s) + 1 when there is none
RECURSIVE IndexOf(_, _, _)
IndexOf(s, c, k) ==
  IF k > Len(s) THEN k ELSE IF Ch(s, k) = c THEN k ELSE IndexOf(s, c, k + 1)

\* float(text): [sign] digits [. digits] or [sign] . digits, and the specials
\* nan / inf / infinity; anything else raises ValueError (here: None).  The value
\* is the fraction n / d.  Exponents and digit-group underscores, which float()
\* also accepts, do not occur in the cell texts of the model.
Float(text) ==
  LET t == Strip(text)
      signed == Len(t) > 0 /\ Ch(t, 1) \in {"+", "-"}
      neg == Len(t) > 0 /\ Ch(t, 1) = "-"
      body == IF signed THEN SubSeq(t, 2, Len(t)) ELSE t
      dot == IndexOf(body, ".", 1)
      digits == RemoveChar(body, ".")
      fracLen == IF dot > Len(body) THEN 0 ELSE Len(body) - dot
      mag == DigitsValue(digits, 0)
  IN IF Upper(body) = "NAN" THEN [kind |-> "nan"]
     ELSE IF Upper(body) \in {"INF", "INFINITY"} THEN [kind |-> "inf"]
     ELSE IF /\ Len(digits) > 0
             /\ CountChar(body, ".") <= 1
             /\ \A k \in 1..Len(digits) : IsDigit(Ch(digits, k))
          THEN [kind |-> "num", n |-> IF neg THEN 0 - mag ELSE mag, d |-> Pow10(fracLen)]
          ELSE None

normalize_number(value) ==
  LET text == Strip(value)
  IN IF text = "" THEN None ELSE Float(RemoveChar(text, ","))

\* int(round(num)) for a finite float: nearest integer, an exact half goes to
\* the even neighbour (Python 3 round)
PyRound(num) ==
  LET mag == IF num.n < 0 THEN 0 - num.n ELSE num.n
      q == mag \div num.d
      r == mag % num.d
      up == IF 2 * r > num.d \/ (2 * r = num.d /\ q % 2 = 1) THEN q + 1 ELSE q
  IN IF num.n < 0 THEN 0 - up ELSE up

(***************************************************************************)
(* canonical_key                                                           *)
(***************************************************************************)

\* the key with the spaces of the profile kept
canonical_key_keep_spaces(depth, profile, gage) ==
  LET depth_text == Strip(depth)
      depth_cut == IF EndsWith(depth_text, ".0")
                   THEN SubSeq(depth_text, 1, Len(depth_text) - 2)
                   ELSE depth_text
  IN Upper(depth_cut \o Strip(profile) \o Strip(gage))

canonical_key(depth, profile, gage) ==
  LET depth_text == Strip(depth)
      profile_text == Strip(profile)
      gage_text == Strip(gage)
      depth_cut == IF EndsWith(depth_text, ".0")
                   THEN SubSeq(depth_text, 1, Len(depth_text) - 2)
                   ELSE depth_text
  IN Upper(depth_cut \o RemoveChar(profile_text, " ") \o gage_text)

(***************************************************************************)
(* build_mapping: the pure parts                                           *)
(***************************************************************************)

HeaderTokens == {"CONCAT", "UNC", "G30", "G60", "G90"}
Needed == {"DEPTH", "PROFILE", "GAUGE", "UNC", "G30", "G60", "G90"}
Finishes == {"UNC", "G30", "G60", "G90"}

\* values = [v.strip() for v in row.values() if v.strip()], as a set
RowValues(row) == {Strip(row[k].val) : k \in 1..Len(row)} \ {""}

\* the test of the header scan
IsHeaderRow(row) == HeaderTokens \subseteq RowValues(row)

\* for row in rows: ... break   (index of the row kept, 0 for None)
RECURSIVE ScanHeader(_, _)
ScanHeader(rs, k) ==
  IF k > Len(rs) THEN 0
  ELSE IF IsHeaderRow(rs[k]) THEN k
  ELSE ScanHeader(rs, k + 1)

\* the scan without its break: the last matching row would be kept
RECURSIVE ScanHeaderNoBreak(_, _, _)
ScanHeaderNoBreak(rs, k, found) ==
  IF k > Len(rs) THEN found
  ELSE ScanHeaderNoBreak(rs, k + 1, IF IsHeaderRow(rs[k]) THEN k ELSE found)

FindHeaderLast(rs) == ScanHeaderNoBreak(rs, 1, 0)

FindHeader(rs) == ScanHeader(rs, 1)

\* col_by_header[h] before sorting: the column indices of the header cells
\* whose text is h (stripped, upper-cased), in the order of the cells in the row
RECURSIVE ColsInRowOrder(_, _)
ColsInRowOrder(row, h) ==
  IF Len(row) = 0 THEN <<>>
  ELSE (IF Upper(Strip(row[1].val)) = h THEN <<col_to_index(row[1].ref)>> ELSE <<>>)
       \o ColsInRowOrder(Tail(row), h)

RECURSIVE InsertInt(_, _)
InsertInt(sorted, x) ==
  IF Len(sorted) = 0 THEN <<x>>
  ELSE IF x < Head(sorted) THEN <<x>> \o sorted
  ELSE <<Head(sorted)>> \o InsertInt(Tail(sorted), x)

\* list.sort() of column indices
RECURSIVE SortInts(_)
SortInts(xs) ==
  IF Len(xs) = 0 THEN <<>> ELSE InsertInt(SortInts(Tail(xs)), Head(xs))

\* col_by_header[h][0] with the sort left out
FirstColUnsorted(row, h) == Head(ColsInRowOrder(row, h))

\* col_by_header[h].sort(); col_by_header[h][0]
FirstCol(row, h) == Head(SortInts(ColsInRowOrder(row, h)))

\* needed.difference(col_by_header.keys())
MissingColumns(row) == {h \in Needed : ColsInRowOrder(row, h) = <<>>}

RECURSIVE get_by_col(_, _)
get_by_col(row, col_index) ==
  IF Len(row) = 0 THEN ""
  ELSE IF col_to_index(row[1].ref) = col_index THEN row[1].val
  ELSE get_by_col(Tail(row), col_index)

\* the test before `continue`, on the three stripped cells
RowSkipped(depth_raw, profile_raw, gage_raw) ==
  depth_raw = "" \/ profile_raw = "" \/ gage_raw = ""

\* the key build_mapping gives a row, from the three resolved columns
RowKey(row, dcol, pcol, gcol) ==
  canonical_key(Strip(get_by_col(row, dcol)),
                Strip(get_by_col(row, pcol)),
                Strip(get_by_col(row, gcol)))

\* num = normalize_number(get_by_col(row, col_index)) for each finish
FinishNums(row, fcols) == [f \in Finishes |-> normalize_number(get_by_col(row, fcols[f]))]

\* finish_map of a row whose parsed finish cells are all finite
FinishMap(nums) == [f \in {g \in Finishes : nums[g] # None} |-> PyRound(nums[f])]

HasKey(items, key) == \E k \in 1..Len(items) : items[k].key = key

\* d[key] = val on an insertion-ordered dict
DictSet(items, key, val) ==
  IF HasKey(items, key)
  THEN [k \in 1..Len(items) |->
          IF items[k].key = key THEN [key |-> key, finishes |-> val] ELSE items[k]]
  ELSE Append(items, [key |-> key, finishes |-> val])

DictGet(items, key) == items[CHOOSE k \in 1..Len(items) : items[k].key = key].finishes

\* the store with the `if finish_map` test left out
StoreEntryAlways(items, key, finish_map) == DictSet(items, key, finish_map)

\* the store merging into an existing entry instead of replacing it
StoreEntryMerge(items, key, finish_map) ==
  IF DOMAIN finish_map = {} THEN items
  ELSE IF HasKey(items, key)
  THEN DictSet(items, key,
               [f \in DOMAIN finish_map \cup DOMAIN DictGet(items, key) |->
                  IF f \in DOMAIN finish_map THEN finish_map[f] ELSE DictGet(items, key)[f]])
  ELSE DictSet(items, key, finish_map)

\* if finish_map: mapping[key] = finish_map
StoreEntry(items, key, finish_map) ==
  IF DOMAIN finish_map # {} THEN DictSet(items, key, finish_map) ELSE items

RECURSIVE InsertItem(_, _)
InsertItem(sorted, it) ==
  IF Len(sorted) = 0 THEN <<it>>
  ELSE IF StrLess(it.key, Head(sorted).key) THEN <<it>> \o sorted
  ELSE <<Head(sorted)>> \o InsertItem(Tail(sorted), it)

RECURSIVE SortItems(_)
SortItems(items) ==
  IF Len(items) = 0 THEN <<>>
  ELSE InsertItem(SortItems(SubSeq(items, 1, Len(items) - 1)), items[Len(items)])

\* the return with the sort left out
ReturnUnsorted(items) == items

\* dict(sorted(mapping.items(), key=lambda kv: kv[0]))
ReturnSorted(items) == SortItems(items)

(***************************************************************************)
(* Inputs: the archive and the rows of its sheets                          *)
(***************************************************************************)

\* longest sheet, in rows
MaxRows == 3

SheetName == "Canam Deck Catalog"

StdCols == <<"A", "B", "C", "D", "E", "F", "G", "H">>

\* a row without its row number: cells [col, val] in document order
Cells(cols, vals) == [k \in 1..Len(vals) |-> [col |-> cols[k], val |-> vals[k]]]

HeaderStd == Cells(StdCols,
  <<"CONCAT", "DEPTH", "PROFILE", "GAUGE", "UNC", "G30", "G60", "G90">>)
\* a second PROFILE column (I) whose cell comes before the first one's (C)
HeaderDup == Cells(<<"A", "B", "I", "C", "D", "E", "F", "G", "H">>,
  <<"CONCAT", " Depth", "profile ", "PROFILE", "GAUGE", "UNC", "G30", "G60", "G90">>)
HeaderNoGauge == Cells(<<"A", "B", "C", "E", "F", "G", "H">>,
  <<"CONCAT", "DEPTH", "PROFILE", "UNC", "G30", "G60", "G90">>)
\* a title row: every column name, but "Concat" is not the token CONCAT
Banner == Cells(StdCols,
  <<"Concat", "DEPTH", "PROFILE", "GAUGE", "UNC", "G30", "G60", "G90">>)

RowA == Cells(<<"A", "B", "C", "D", "E">>, <<"x", "3.0", "VULCRAFT W ", "22", "2.5">>)
RowB == Cells(<<"A", "B", "C", "D", "E", "F", "G", "I">>,
  <<"", "3", "vulcraftw", " 22", "", "3.5", "1,204", "N">>)
RowNoFinish == Cells(StdCols, <<"", "3", "VULCRAFTW", "22", "x", "", "-", ".">>)
RowNoGauge == Cells(StdCols, <<"", "3", "VULCRAFTW", " ", "5", "6", "7", "8">>)
RowShifted == Cells(<<"B", "C", "D", "E">>, <<"3", "VULCRAFTW2", "2", "9">>)
RowLow == Cells(<<"B", "C", "D", "E", "H">>, <<"1.5", "B", "20", "2", "0.5">>)
RowNan == Cells(<<"B", "C", "D", "F">>, <<"2", "N", "18", "nan">>)

\* the rows a worksheet part is made of, by name
PoolRow(name) ==
  CASE name = "HeaderStd" -> HeaderStd
    [] name = "HeaderDup" -> HeaderDup
    [] name = "HeaderNoGauge" -> HeaderNoGauge
    [] name = "Banner" -> Banner
    [] name = "RowA" -> RowA
    [] name = "RowB" -> RowB
    [] name = "RowNoFinish" -> RowNoFinish
    [] name = "RowNoGauge" -> RowNoGauge
    [] name = "RowShifted" -> RowShifted
    [] name = "RowLow" -> RowLow
    [] name = "RowNan" -> RowNan

RowPool == {"HeaderDup", "HeaderNoGauge", "Banner",
            "RowA", "RowB", "RowNoFinish", "RowNoGauge", "RowShifted", "RowLow", "RowNan"}

\* the row at sheet position r: cell refs are column letters and row number
AtRow(tpl, r) ==
  [k \in 1..Len(tpl) |-> [ref |-> tpl[k].col \o Digits[r + 1], val |-> tpl[k].val]]

\* a worksheet part: the names of its <row> elements, in document order
Sheets == UNION {[1..n -> RowPool] : n \in 0..MaxRows}

\* the rows parsed from a worksheet part (cells with their resolved text)
ParsedRows(part) == [r \in 1..Len(part) |-> AtRow(PoolRow(part[r]), r)]

OtherSheet == <<"HeaderStd", "RowLow">>

\* xl/workbook.xml sheets, xl/_rels/workbook.xml.rels, and the worksheet parts
GoodArchive(sheet) ==
  [sheets |-> <<[name |-> "Notes", rid |-> "rId1"], [name |-> SheetName, rid |-> "rId2"]>>,
   rels |-> <<[Id |-> "rId1", Target |-> "worksheets/sheet1.xml"],
              [Id |-> "rId2", Target |-> "worksheets/sheet2.xml"]>>,
   parts |-> [q \in {"xl/worksheets/sheet1.xml", "xl/worksheets/sheet2.xml"} |->
                IF q = "xl/worksheets/sheet2.xml" THEN sheet ELSE OtherSheet]]

NoSheetArchive ==
  [GoodArchive(OtherSheet) EXCEPT !.sheets = <<[name |-> "Notes", rid |-> "rId1"]>>]
NoRelIdArchive ==
  [GoodArchive(OtherSheet) EXCEPT !.sheets = <<[name |-> SheetName, rid |-> ""]>>]
NoRelArchive ==
  [GoodArchive(OtherSheet) EXCEPT !.rels = <<[Id |-> "rId1", Target |-> "worksheets/sheet1.xml"]>>]
NoTargetArchive ==
  [GoodArchive(OtherSheet) EXCEPT !.rels = <<[Id |-> "rId2", Target |-> ""]>>]

BrokenArchives == {NoSheetArchive, NoRelIdArchive, NoRelArchive, NoTargetArchive}

(***************************************************************************)
(* read_sheet_rows                                                         *)
(***************************************************************************)

\* sheet_rel_id: the r:id of the first sheet named sheet_name, "" for None
SheetRelId(ar, sheet_name) ==
  IF \E k \in 1..Len(ar.sheets) : ar.sheets[k].name = sheet_name
  THEN ar.sheets[CHOOSE k \in 1..Len(ar.sheets) :
                   /\ ar.sheets[k].name = sheet_name
                   /\ \A j \in 1..(k - 1) : ar.sheets[j].name # sheet_name].rid
  ELSE ""

\* sheet_target: the Target of the first relationship with that Id, "" for None
SheetTarget(ar, rel_id) ==
  IF \E k \in 1..Len(ar.rels) : ar.rels[k].Id = rel_id
  THEN ar.rels[CHOOSE k \in 1..Len(ar.rels) :
                 /\ ar.rels[k].Id = rel_id
                 /\ \A j \in 1..(k - 1) : ar.rels[j].Id # rel_id].Target
  ELSE ""

\* "ok", or which RuntimeError read_sheet_rows raises
ReadOutcome(ar, sheet_name) ==
  IF SheetRelId(ar, sheet_name) = "" THEN "no sheet"
  ELSE IF SheetTarget(ar, SheetRelId(ar, sheet_name)) = "" THEN "no relationship"
  ELSE "ok"

read_sheet_rows(ar, sheet_name) ==
  ParsedRows(ar.parts["xl/" \o SheetTarget(ar, SheetRelId(ar, sheet_name))])

(***************************************************************************)
(* State                                                                   *)
(***************************************************************************)

VARIABLES
  pc,          \* position in main / build_mapping
  exists,      \* workbook_path.exists()
  archive,     \* content of Deck Weights.xlsx
  zf_open,     \* the ZipFile handle is open
  rows,        \* rows returned by read_sheet_rows
  header_row,  \* index in rows of the header row, 0 for None
  depth_col, profile_col, gage_col, finish_cols,
  i,           \* rows of the main loop already processed
  mapping,     \* the dict under construction
  result,      \* the dict build_mapping returned
  outFile,     \* weights.js: [written, content]
  error,       \* the uncaught exception, "none" if none
  exit_code,   \* process status, -1 while running
  krow, kkey, kop, \* a row under variation, its key, the last variation
  kn               \* variations applied

mainVars == <<pc, exists, archive, zf_open, rows, header_row, depth_col, profile_col,
              gage_col, finish_cols, i, mapping, result, outFile, error, exit_code>>
keyVars == <<krow, kkey, kop, kn>>
vars == <<mainVars, keyVars>>

NoCols == [f \in Finishes |-> 0]
Untouched == [written |-> FALSE, content |-> <<>>]

InitIdleMain ==
  /\ zf_open = FALSE /\ rows = <<>> /\ header_row = 0
  /\ depth_col = 0 /\ profile_col = 0 /\ gage_col = 0 /\ finish_cols = NoCols
  /\ i = 0 /\ mapping = <<>> /\ result = <<>>
  /\ outFile = Untouched /\ error = "none" /\ exit_code = -1

Init ==
  /\ pc = "start"
  /\ InitIdleMain
  /\ \/ exists = FALSE /\ archive = GoodArchive(<<>>)
     \/ exists = TRUE /\ archive \in BrokenArchives
     \/ exists = TRUE /\ \E sheet \in Sheets : archive = GoodArchive(sheet)
  /\ krow = <<>> /\ kkey = "" /\ kop = "none" /\ kn = 0

(***************************************************************************)
(* main                                                                    *)
(***************************************************************************)

\* an uncaught exception ends the process
Raise(name) ==
  /\ pc' = "exit"
  /\ error' = name
  /\ exit_code' = 1

\* a failure path that leaves an empty weights.js behind
ExitMissingWorkbookTruncating ==
  /\ pc = "start" /\ ~exists
  /\ pc' = "exit" /\ exit_code' = 1
  /\ outFile' = [written |-> TRUE, content |-> <<>>]
  /\ UNCHANGED <<exists, archive, zf_open, rows, header_row, depth_col, profile_col,
                 gage_col, finish_cols, i, mapping, result, error, keyVars>>

\* if not workbook_path.exists(): print(...); return 1
ExitMissingWorkbook ==
  /\ pc = "start" /\ ~exists
  /\ pc' = "exit" /\ exit_code' = 1
  /\ UNCHANGED <<exists, archive, zf_open, rows, header_row, depth_col, profile_col,
                 gage_col, finish_cols, i, mapping, result, outFile, error, keyVars>>

\* with zipfile.ZipFile(workbook_path) as zf:
OpenArchive ==
  /\ pc = "start" /\ exists
  /\ pc' = "read" /\ zf_open' = TRUE
  /\ UNCHANGED <<exists, archive, rows, header_row, depth_col, profile_col, gage_col,
                 finish_cols, i, mapping, result, outFile, error, exit_code, keyVars>>

\* rows = read_sheet_rows(zf, "Canam Deck Catalog"); a RuntimeError leaves the
\* with block, which closes the archive, and ends the process
ReadSheetRows ==
  /\ pc = "read"
  /\ IF ReadOutcome(archive, SheetName) = "ok"
     THEN /\ rows' = read_sheet_rows(archive, SheetName)
          /\ pc' = "close"
          /\ UNCHANGED <<zf_open, error, exit_code>>
     ELSE /\ Raise("RuntimeError")
          /\ zf_open' = FALSE
          /\ UNCHANGED rows
  /\ UNCHANGED <<exists, archive, header_row, depth_col, profile_col, gage_col,
                 finish_cols, i, mapping, result, outFile, keyVars>>

\* end of the with block
CloseArchive ==
  /\ pc = "close"
  /\ zf_open' = FALSE /\ pc' = "header"
  /\ UNCHANGED <<exists, archive, rows, header_row, depth_col, profile_col, gage_col,
                 finish_cols, i, mapping, result, outFile, error, exit_code, keyVars>>

\* build_mapping, header scan
FindHeaderRow ==
  /\ pc = "header"
  /\ header_row' = FindHeader(rows)
  /\ IF header_row' = 0
     THEN Raise("RuntimeError")
     ELSE pc' = "columns" /\ UNCHANGED <<error, exit_code>>
  /\ UNCHANGED <<exists, archive, zf_open, rows, depth_col, profile_col, gage_col,
                 finish_cols, i, mapping, result, outFile, keyVars>>

\* build_mapping, column resolution
ResolveColumns ==
  /\ pc = "columns"
  /\ IF MissingColumns(rows[header_row]) # {}
     THEN /\ Raise("RuntimeError")
          /\ UNCHANGED <<depth_col, profile_col, gage_col, finish_cols>>
     ELSE /\ depth_col' = FirstCol(rows[header_row], "DEPTH")
          /\ profile_col' = FirstCol(rows[header_row], "PROFILE")
          /\ gage_col' = FirstCol(rows[header_row], "GAUGE")
          /\ finish_cols' = [f \in Finishes |-> FirstCol(rows[header_row], f)]
          /\ pc' = "rows"
          /\ UNCHANGED <<error, exit_code>>
  /\ UNCHANGED <<exists, archive, zf_open, rows, header_row, i, mapping, result,
                 outFile, keyVars>>

\* build_mapping, one iteration of `for row in rows`
ProcessRow ==
  /\ pc = "rows" /\ i < Len(rows)
  /\ LET row == rows[i + 1]
         depth_raw == Strip(get_by_col(row, depth_col))
         profile_raw == Strip(get_by_col(row, profile_col))
         gage_raw == Strip(get_by_col(row, gage_col))
         key == RowKey(row, depth_col, profile_col, gage_col)
         nums == FinishNums(row, finish_cols)
     IN IF RowSkipped(depth_raw, profile_raw, gage_raw)
        THEN /\ i' = i + 1
             /\ UNCHANGED <<pc, mapping, error, exit_code>>
        ELSE IF \E f \in Finishes : nums[f].kind = "nan"
        THEN Raise("ValueError") /\ UNCHANGED <<i, mapping>>
        ELSE IF \E f \in Finishes : nums[f].kind = "inf"
        THEN Raise("OverflowError") /\ UNCHANGED <<i, mapping>>
        ELSE /\ mapping' = StoreEntry(mapping, key, FinishMap(nums))
             /\ i' = i + 1
             /\ UNCHANGED <<pc, error, exit_code>>
  /\ UNCHANGED <<exists, archive, zf_open, rows, header_row, depth_col, profile_col,
                 gage_col, finish_cols, result, outFile, keyVars>>

\* build_mapping, return
ReturnMapping ==
  /\ pc = "rows" /\ i = Len(rows)
  /\ result' = ReturnSorted(mapping)
  /\ pc' = "write"
  /\ UNCHANGED <<exists, archive, zf_open, rows, header_row, depth_col, profile_col,
                 gage_col, finish_cols, i, mapping, outFile, error, exit_code, keyVars>>

\* write_weights_js(output_path, mapping); print(...); return 0
WriteWeightsJs ==
  /\ pc = "write"
  /\ outFile' = [written |-> TRUE, content |-> result]
  /\ pc' = "exit" /\ exit_code' = 0
  /\ UNCHANGED <<exists, archive, zf_open, rows, header_row, depth_col, profile_col,
                 gage_col, finish_cols, i, mapping, result, error, keyVars>>

Next ==
  \/ ExitMissingWorkbook
  \/ OpenArchive
  \/ ReadSheetRows
  \/ CloseArchive
  \/ FindHeaderRow
  \/ ResolveColumns
  \/ ProcessRow
  \/ ReturnMapping
  \/ WriteWeightsJs

Spec == Init /\ [][Next]_vars

(***************************************************************************)
(* What the properties speak about                                         *)
(***************************************************************************)

\* the run got as far as scanning for the header row
Scanned ==
  \/ pc \in {"columns", "rows", "write"}
  \/ pc = "exit" /\ exists /\ ReadOutcome(archive, SheetName) = "ok"

\* the columns are resolved
Resolved ==
  \/ pc \in {"rows", "write"}
  \/ pc = "exit" /\ exists /\ error # "RuntimeError"

\* build_mapping has returned
Returned == pc = "write" \/ (pc = "exit" /\ exit_code = 0)

DepthCell(r) == get_by_col(rows[r], depth_col)
ProfileCell(r) == get_by_col(rows[r], profile_col)
GaugeCell(r) == get_by_col(rows[r], gage_col)
FinishCell(r, f) == get_by_col(rows[r], finish_cols[f])

KeyOfRow(r) == RowKey(rows[r], depth_col, profile_col, gage_col)

\* row r has its three key cells
HasKeyCells(r) ==
  Strip(DepthCell(r)) # "" /\ Strip(ProfileCell(r)) # "" /\ Strip(GaugeCell(r)) # ""

Parses(r, f) == normalize_number(FinishCell(r, f)).kind = "num"

\* row r has its three key cells and a finish cell that parses
Complete(r) == HasKeyCells(r) /\ \E f \in Finishes : Parses(r, f)

Keys(items) == {items[k].key : k \in 1..Len(items)}

SetMax(S) == CHOOSE x \in S : \A y \in S : y <= x
SetMin(S) == CHOOSE x \in S : \A y \in S : x <= y

\* the row contains the token among its stripped cell values
ContainsToken(row, tok) == \E k \in 1..Len(row) : Strip(row[k].val) = tok
HasAllFive(row) ==
  /\ ContainsToken(row, "CONCAT") /\ ContainsToken(row, "UNC")
  /\ ContainsToken(row, "G30") /\ ContainsToken(row, "G60") /\ ContainsToken(row, "G90")

\* column indices of the header cells named h
HeaderCols(h) ==
  {col_to_index(rows[header_row][k].ref) :
     k \in {j \in 1..Len(rows[header_row]) : Upper(Strip(rows[header_row][j].val)) = h}}

ColumnUsed(h) ==
  CASE h = "DEPTH" -> depth_col
    [] h = "PROFILE" -> profile_col
    [] h = "GAUGE" -> gage_col
    [] OTHER -> finish_cols[h]

(***************************************************************************)
(* Properties of main and build_mapping                                    *)
(***************************************************************************)

\* C1: every entry of the mapping, while it is built and when it is returned,
\* has a non-empty finish map and the key of some processed row that has its
\* depth, profile and gauge cells and a finish cell that parses; processing a
\* row that lacks one of these leaves the mapping as it was.
C1_EntriesComeFromCompleteRows ==
  [][ /\ (i' = i + 1 /\ ~Complete(i + 1)) => mapping' = mapping
      /\ \A k \in 1..Len(mapping') :
           /\ DOMAIN mapping'[k].finishes # {}
           /\ \E r \in 1..i' : Complete(r) /\ KeyOfRow(r) = mapping'[k].key
      /\ \A k \in 1..Len(result') :
           /\ DOMAIN result'[k].finishes # {}
           /\ \E r \in 1..Len(rows) : Complete(r) /\ KeyOfRow(r) = result'[k].key
    ]_vars

\* C1 witness: a returned mapping with an entry, from a sheet that also holds a
\* row without gauge and a row without any parseable finish
C1_Witness ==
  /\ Returned /\ Len(result) >= 1
  /\ \E r \in 1..Len(rows) : r > header_row /\ ~HasKeyCells(r)
                             /\ \E f \in Finishes : Parses(r, f)

\* floor(num + 1/2): nearest integer, an exact half goes up
RoundHalfUp(num) == (2 * num.n + num.d) \div (2 * num.d)

\* C2: the value stored for a finish of the data row just processed is the
\* cell's number rounded to the nearest integer, an exact half rounded up
\* (UNC "2.5" is stored as 3).
C2_StoredValueRoundsHalfUp ==
  (pc = "rows" /\ i > header_row /\ Complete(i)) =>
    \A f \in Finishes :
      Parses(i, f) =>
        DictGet(mapping, KeyOfRow(i))[f] = RoundHalfUp(normalize_number(FinishCell(i, f)))

\* the sheet has no header row, or its header row lacks a required column
StructuralFailure ==
  \/ ReadOutcome(archive, SheetName) # "ok"
  \/ LET sheet == read_sheet_rows(archive, SheetName)
     IN \/ \A r \in 1..Len(sheet) : ~HasAllFive(sheet[r])
        \/ \E h \in Needed :
             \A k \in 1..Len(sheet[FindHeader(sheet)]) :
               Upper(Strip(sheet[FindHeader(sheet)][k].val)) # h

\* C3: weights.js is written only once the archive has been read and closed and
\* build_mapping has returned, and holds what build_mapping returned; a run
\* without workbook ends with exit code 1, a run whose sheet, relationship,
\* header row or required column is missing ends with a RuntimeError, and
\* both leave weights.js unwritten.
C3_OutputOnlyAfterSuccessfulBuild ==
  /\ outFile.written =>
       /\ pc = "exit" /\ exit_code = 0 /\ error = "none"
       /\ ~zf_open
       /\ rows = read_sheet_rows(archive, SheetName)
       /\ header_row # 0 /\ i = Len(rows)
       /\ outFile.content = result
  /\ (pc = "exit" /\ ~exists) => (exit_code = 1 /\ outFile = Untouched)
  /\ (pc = "exit" /\ exists /\ StructuralFailure) =>
       (error = "RuntimeError" /\ exit_code # 0 /\ ~zf_open /\ outFile = Untouched)
  /\ (pc # "exit") => outFile = Untouched

\* C3 witness: a finished run that wrote a non-empty mapping
C3_Witness == pc = "exit" /\ outFile.written /\ Len(outFile.content) >= 1

\* C4: once the rows are scanned, the header row is the first row holding all
\* five tokens; when no row holds them the run has failed with a RuntimeError
\* and no mapping exists.
C4_HeaderIsFirstRowWithAllTokens ==
  Scanned =>
    IF \E r \in 1..Len(rows) : HasAllFive(rows[r])
    THEN header_row = SetMin({r \in 1..Len(rows) : HasAllFive(rows[r])})
    ELSE /\ header_row = 0 /\ pc = "exit" /\ error = "RuntimeError"
         /\ mapping = <<>> /\ result = <<>> /\ ~outFile.written

\* C4 witness: a title row is skipped and a later matching row is ignored
C4_Witness ==
  /\ Scanned /\ header_row >= 2
  /\ \E r \in 1..Len(rows) : r > header_row /\ HasAllFive(rows[r])

\* C5: each field is read from the lowest-indexed column among the header
\* cells carrying its name, whatever the order of the cells in the row.
C5_LowestColumnIsUsed ==
  Resolved => \A h \in Needed : ColumnUsed(h) = SetMin(HeaderCols(h))

\* C5 witness: two PROFILE header cells, the higher column first in the row,
\* and an entry built from the lower one
C5_Witness ==
  /\ Resolved /\ Len(mapping) >= 1
  /\ Cardinality(HeaderCols("PROFILE")) >= 2
  /\ Head(ColsInRowOrder(rows[header_row], "PROFILE")) # profile_col

\* (depth, profile, gauge) of a row, normalised: stripped, one trailing ".0"
\* off the depth, spaces out of the profile, upper-cased
NormTriple(r) ==
  LET d == Strip(DepthCell(r))
  IN <<Upper(IF EndsWith(d, ".0") THEN SubSeq(d, 1, Len(d) - 2) ELSE d),
       Upper(RemoveChar(Strip(ProfileCell(r)), " ")),
       Upper(Strip(GaugeCell(r)))>>

\* C7: two processed data rows whose normalised (depth, profile, gauge)
\* triples differ have different keys, so they never share an entry.
C7_DistinctTriplesDistinctKeys ==
  pc = "rows" =>
    \A r1, r2 \in (header_row + 1)..i :
      (HasKeyCells(r1) /\ HasKeyCells(r2) /\ NormTriple(r1) # NormTriple(r2))
        => KeyOfRow(r1) # KeyOfRow(r2)

\* C8: the keys of the returned mapping, and of the mapping written to
\* weights.js, are strictly ascending in string order, none twice.
C8_ReturnedKeysStrictlyAscending ==
  /\ Returned =>
       /\ \A k \in 1..(Len(result) - 1) : StrLess(result[k].key, result[k + 1].key)
       /\ Cardinality(Keys(result)) = Len(result)
       /\ Keys(result) = Keys(mapping)
  /\ outFile.written =>
       \A k \in 1..(Len(outFile.content) - 1) :
         StrLess(outFile.content[k].key, outFile.content[k + 1].key)

\* C8 witness: a returned mapping whose insertion order was not ascending
C8_Witness == Returned /\ Len(result) >= 2 /\ result # mapping

\* C9: while the loop is at the header row or before it, no entry exists: the
\* header row and the rows before it contribute nothing.
C9_RowsUpToHeaderContributeNothing ==
  (pc = "rows" /\ i <= header_row) => mapping = <<>>

\* C10: the entry of a key is the finish map of the last processed row with
\* that key that has a parseable finish cell, nothing merged in from earlier rows.
C10_LastCompleteRowWins ==
  (pc \in {"rows", "write"} \/ Returned) =>
    /\ \A k \in 1..Len(mapping) :
         LET same == {r \in 1..i : Complete(r) /\ KeyOfRow(r) = mapping[k].key}
         IN /\ same # {}
            /\ mapping[k].finishes = FinishMap(FinishNums(rows[SetMax(same)], finish_cols))
    /\ Returned =>
         \A k \in 1..Len(result) : result[k].finishes = DictGet(mapping, result[k].key)

\* C10 witness: two complete rows share a key, the earlier has a finish the
\* later lacks, and the returned entry is the later row's
C10_Witness ==
  /\ Returned
  /\ \E r1, r2 \in 1..Len(rows) :
       /\ r1 < r2 /\ Complete(r1) /\ Complete(r2) /\ KeyOfRow(r1) = KeyOfRow(r2)
       /\ \E f \in Finishes : Parses(r1, f) /\ ~Parses(r2, f)

(***************************************************************************)
(* canonical_key under variation of a row                                  *)
(*                                                                         *)
(* A row below the standard header is varied one step at a time; after     *)
(* every step its key is computed again, the way build_mapping computes it.*)
(***************************************************************************)

\* variations applied to one row
MaxSteps == 3

KeyRowPool ==
  {AtRow(Cells(<<"A", "B", "C", "D", "E">>, <<"x", d, "Ab", "22", "2.5">>), 2) :
     d \in {"3", ""}}

KeyOf(row) == RowKey(row, depth_col, profile_col, gage_col)
KeyColumns == {depth_col, profile_col, gage_col}

CellsAt(row, col) == {k \in 1..Len(row) : col_to_index(row[k].ref) = col}

SetCell(row, k, v) == [row EXCEPT ![k].val = v]

SwapCase(c) ==
  IF IsLower(c) THEN UpperTable[c] ELSE IF IsUpper(c) THEN LowerTable[c] ELSE c

\* the columns are those build_mapping resolves from the standard header
InitKey ==
  /\ pc = "key"
  /\ exists = FALSE /\ archive = GoodArchive(<<>>)
  /\ zf_open = FALSE /\ rows = <<>> /\ header_row = 0
  /\ depth_col = FirstCol(AtRow(HeaderStd, 1), "DEPTH")
  /\ profile_col = FirstCol(AtRow(HeaderStd, 1), "PROFILE")
  /\ gage_col = FirstCol(AtRow(HeaderStd, 1), "GAUGE")
  /\ finish_cols = [f \in Finishes |-> FirstCol(AtRow(HeaderStd, 1), f)]
  /\ i = 0 /\ mapping = <<>> /\ result = <<>>
  /\ outFile = Untouched /\ error = "none" /\ exit_code = -1
  /\ krow \in KeyRowPool
  /\ kkey = KeyOf(krow)
  /\ kop = "none" /\ kn = 0

Vary(row, op) ==
  /\ pc = "key" /\ kn < MaxSteps
  /\ krow' = row
  /\ kkey' = KeyOf(row)
  /\ kop' = op
  /\ kn' = kn + 1
  /\ UNCHANGED mainVars

\* whitespace before or after the depth, profile or gauge cell
PadField ==
  \E col \in KeyColumns : \E k \in CellsAt(krow, col) : \E ws \in {" ", "\t"} :
    \/ Vary(SetCell(krow, k, ws \o krow[k].val), "pad")
    \/ Vary(SetCell(krow, k, krow[k].val \o ws), "pad")

\* ".0" put after the last non-blank character of the depth cell
AppendDotZero ==
  \E k \in CellsAt(krow, depth_col) :
    LET v == krow[k].val
        core == RStrip(v)
    IN Vary(SetCell(krow, k, core \o ".0" \o SubSeq(v, Len(core) + 1, Len(v))), "dotzero")

\* a space put somewhere into the profile cell
SpaceInProfile ==
  \E k \in CellsAt(krow, profile_col) : \E p \in 0..Len(krow[k].val) :
    Vary(SetCell(krow, k, SubSeq(krow[k].val, 1, p) \o " "
                          \o SubSeq(krow[k].val, p + 1, Len(krow[k].val))), "space")

\* the case of one letter of the depth, profile or gauge cell changed
ChangeCase ==
  \E col \in KeyColumns : \E k \in CellsAt(krow, col) : \E p \in 1..Len(krow[k].val) :
    /\ IsAlpha(Ch(krow[k].val, p))
    /\ Vary(SetCell(krow, k, SubSeq(krow[k].val, 1, p - 1) \o SwapCase(Ch(krow[k].val, p))
                             \o SubSeq(krow[k].val, p + 1, Len(krow[k].val))), "case")

\* another cell of the row changed
SetOtherCell ==
  \E k \in 1..Len(krow) : \E v \in {"", "3.0 AB 22"} :
    /\ col_to_index(krow[k].ref) \notin KeyColumns
    /\ v # krow[k].val
    /\ Vary(SetCell(krow, k, v), "other")

NextKey ==
  \/ PadField
  \/ AppendDotZero
  \/ SpaceInProfile
  \/ ChangeCase
  \/ SetOtherCell

SpecKey == InitKey /\ [][NextKey]_vars

KDepth == get_by_col(krow, depth_col)
KProfile == get_by_col(krow, profile_col)

\* C6: no variation of the row (surrounding whitespace of a key cell, a
\* trailing ".0" on the depth, a space inside the profile, letter case, any
\* other cell) changes the key.
C6_KeyUnchangedByAnyVariation == [][kkey' = kkey]_vars

\* C6, for depths without a doubled suffix: no variation of the row changes
\* the key, except a trailing ".0" put on a depth that already ends in ".0"
\* (only one ".0" is cut off).
C6_KeyUnchangedUnlessSecondDotZero ==
  [][kkey' = kkey \/ (kop' = "dotzero" /\ EndsWith(Strip(KDepth), ".0"))]_vars

\* C6 witness: a row with a space put into its profile and ".0" put on its
\* depth "3" still has the key of the original row
C6_Witness ==
  /\ kop = "dotzero" /\ Strip(KDepth) = "3.0"
  /\ RemoveChar(KProfile, " ") # KProfile
  /\ kkey = "3AB22"

====
